---- MODULE Spec2Model ----
(***************************************************************************)
(* Bloom filter service of lab2/main.py.                                   *)
(*                                                                         *)
(* The program state is the module-level global bloom_filter (None or a    *)
(* reference to a BloomFilter object) and the BloomFilter objects that are *)
(* still referenced.  The three endpoints are plain `def` handlers, which  *)
(* the framework runs on worker threads; each handler is therefore a       *)
(* sequence of steps, one step per access to shared state, and the steps   *)
(* of different threads interleave.  One bytecode-level access (reading or *)
(* rebinding the global, one bitarray item store, one bitarray item load)  *)
(* is one step: the interpreter lock makes each of them atomic.            *)
(***************************************************************************)
EXTENDS Integers, Sequences, FiniteSets, TLC

\* ---------------------------------------------------------------- bounds
MaxSize == 3
MaxExpected == 2
MaxInst == 2
MaxRoundSize == 12
MaxRoundExpected == 5

Threads == {"t1", "t2"}
Keys == {"x", "y"}
Sizes == (-1) .. MaxSize
Expecteds == (-1) .. MaxExpected
NameLists ==
    { <<>>, <<"md5">>, <<"md5", "sha256">>, <<"bogus", "md5">>, <<"md5", "bogus">> }

\* sizes and expected counts for the round-count formula, with the
\* 1000 / 100 example of the documentation
RoundSizes == (0 .. MaxRoundSize) \cup {1000}
RoundExpecteds == ((-1) .. MaxRoundExpected) \cup {100}

\* the request bodies of POST /init under interleaving: one per path through
\* the constructor and per shape of the object it builds
Configs ==
    { <<3, 1, <<"md5", "sha256">> >>,   \* two rounds, two algorithms
      <<2, 1, <<"md5">> >>,             \* one round
      <<1, 2, <<"md5">> >>,             \* rounds to zero
      <<2, 1, <<>> >>,                  \* no algorithms
      <<2, 0, <<"bogus", "md5">> >>,    \* division by zero
      <<-1, 1, <<"md5">> >>,            \* negative length
      <<2, 1, <<"md5", "bogus">> >> }   \* unknown algorithm

None == 0
NoKey == "-"

\* ----------------------------------------------------------------- state
VARIABLES
    bloom_filter,   \* the global: None or the id of the active object
    heap,           \* id -> BloomFilter object, for the referenced objects
    nextId,         \* identity of the next object constructed
    pc,             \* per thread: the line the handler is at
    op,             \* per thread: the handler it runs
    key,            \* per thread: item.key / key
    self,           \* per thread: the object its method call is bound to
    i,              \* per thread: the loop variable of the method
    cfg,            \* per thread: the request body of POST /init, <<size, n, names>>
    outcome,        \* per thread: what the handler returned or raised
    hist,           \* history, per object: keys added, adds begun, and, until an add
                    \* begins on it, the keys added to the object it replaced
    pre,            \* history, per thread: key's add had completed on self when check bound it
    used            \* history, per thread: objects the rounds of this call touched

vars == <<bloom_filter, heap, nextId, pc, op, key, self, i, cfg, outcome, hist, pre, used>>

\* ------------------------------------------------------------ pure parts

\* hashlib.algorithms_available, restricted to the algorithms the model
\* has digests for; "bogus" stands for every name outside it.
supported_hashes == {"md5", "sha256"}

\* int(hexdigest, 16) is reduced modulo HashModulus = lcm(1..7): for every
\* size that divides it, (d % HashModulus) % size = d % size, so the index
\* computed below is the index the program computes for sizes 1..7.
HashModulus == 420

\* int(hashlib.new("md5", s.encode("utf-8")).hexdigest(), 16) % HashModulus
md5 ==
    [s \in {"x0", "x1", "x2", "x3", "x4", "x5", "y0", "y1", "y2", "y3", "y4", "y5"} |->
        CASE s = "x0" -> 123 [] s = "x1" -> 217 [] s = "x2" -> 188
          [] s = "x3" -> 415 [] s = "x4" -> 388 [] s = "x5" -> 301
          [] s = "y0" -> 219 [] s = "y1" -> 276 [] s = "y2" -> 293
          [] s = "y3" -> 59  [] s = "y4" -> 267 [] s = "y5" -> 7]

\* int(hashlib.new("sha256", s.encode("utf-8")).hexdigest(), 16) % HashModulus
sha256 ==
    [s \in {"x0", "x1", "x2", "x3", "x4", "x5", "y0", "y1", "y2", "y3", "y4", "y5"} |->
        CASE s = "x0" -> 27  [] s = "x1" -> 393 [] s = "x2" -> 225
          [] s = "x3" -> 383 [] s = "x4" -> 215 [] s = "x5" -> 92
          [] s = "y0" -> 53  [] s = "y1" -> 265 [] s = "y2" -> 234
          [] s = "y3" -> 419 [] s = "y4" -> 349 [] s = "y5" -> 296]

\* variant: the modulus is one too large
hash_func_off_by_one(algorithm, s, size) ==
    (IF algorithm = "md5" THEN md5[s] ELSE sha256[s]) % (size + 1)

\* hash_func(s) of the closure built for `algorithm`, on an object of `size`
hash_func(algorithm, s, size) ==
    (IF algorithm = "md5" THEN md5[s] ELSE sha256[s]) % size

\* variant: the index also depends on a value that changes between calls
\* (a salt drawn per call), here the object counter
_hash_salted(f, item, k) ==
    (hash_func(f.hash_functions[(k % Len(f.hash_functions)) + 1],
               item \o ToString(k), f.size) + nextId) % f.size

\* _hash(item, k): the k-th function of the list, on item + str(k).
\* Called only with a non-empty list (an empty list divides by zero, which
\* the callers below model as the raised ZeroDivisionError).
_hash(f, item, k) ==
    hash_func(f.hash_functions[(k % Len(f.hash_functions)) + 1],
              item \o ToString(k), f.size)

\* variant: int() in place of round()
number_hash_functions_truncates(size, n) ==
    LET num == IF n < 0 THEN -(size * 693147) ELSE size * 693147
        den == IF n < 0 THEN -(n * 1000000) ELSE n * 1000000
    IN  num \div den

\* ln 2 as a ratio; round() of a non-tie is floor(q + 1/2)
Ln2Num == 693147
Ln2Den == 1000000

\* round((size / number_expected_elements) * math.log(2)), for n # 0
number_hash_functions(size, n) ==
    LET num == IF n < 0 THEN -(size * Ln2Num) ELSE size * Ln2Num
        den == IF n < 0 THEN -(n * Ln2Den) ELSE n * Ln2Den
    IN  (2 * num + den) \div (2 * den)

\* the loop of lines 36-48: appends one function per name, raises
\* ValueError at the first name hashlib does not know
RECURSIVE hash_loop(_, _)
hash_loop(names, acc) ==
    IF names = <<>> THEN [raised |-> FALSE, fns |-> acc]
    ELSE IF Head(names) \notin supported_hashes THEN [raised |-> TRUE, fns |-> acc]
    ELSE hash_loop(Tail(names), Append(acc, Head(names)))

\* Objects nobody references are freed (the rebinding of the global and the
\* end of a method call drop the last references).
Collect(h, bf, sf) ==
    [id \in {d \in DOMAIN h : d = bf \/ \E t \in Threads : sf[t] = d} |-> h[id]]

Init ==
    /\ bloom_filter = None
    /\ heap = [id \in {} |-> 0]
    /\ nextId = 1
    /\ pc = [t \in Threads |-> "idle"]
    /\ op = [t \in Threads |-> "none"]
    /\ key = [t \in Threads |-> NoKey]
    /\ self = [t \in Threads |-> None]
    /\ i = [t \in Threads |-> 0]
    /\ cfg = [t \in Threads |-> <<>>]
    /\ outcome = [t \in Threads |-> "none"]
    /\ hist = [id \in {} |-> 0]
    /\ pre = [t \in Threads |-> FALSE]
    /\ used = [t \in Threads |-> {}]

\* the handler of thread t returns or raises: r is what its caller gets
Finish(t, r) ==
    /\ pc' = [pc EXCEPT ![t] = "ret"]
    /\ outcome' = [outcome EXCEPT ![t] = r]

\* variant: the handler answers with a success message instead of raising
raise_not_initialized_returns_ok(t) == Finish(t, "ok")

\* lines 108 and 119: the HTTPException raised when the global is None
raise_not_initialized(t) == Finish(t, "UninitializedError")

\* variant: the failed handler clears the global
init_raise_clears_global(t, r) ==
    /\ Finish(t, r)
    /\ bloom_filter' = None

\* lines 100-101, and an exception line 100 does not catch: the handler is
\* left before line 93 has stored anything
init_raise(t, r) ==
    /\ Finish(t, r)
    /\ bloom_filter' = bloom_filter

\* variant: the add loop stops one round early
add_range_one_short(f) == f.number_hash_functions - 1

\* range(self.number_hash_functions), line 59
add_range(f) == f.number_hash_functions

\* range(self.number_hash_functions), line 67
check_range(f) == f.number_hash_functions

\* variant: the store writes back an array that holds this bit only
set_bit_clobbers(bits, index) == [b \in DOMAIN bits |-> IF b = index THEN 1 ELSE 0]

\* variant: the store flips the bit
set_bit_toggles(bits, index) == [bits EXCEPT ![index] = 1 - @]

\* self.bloom_filter[index] = 1, line 61
set_bit(bits, index) == [bits EXCEPT ![index] = 1]

\* add_to_filter as one call on the object value f, from round r on
RECURSIVE add_rounds(_, _, _)
add_rounds(f, item, r) ==
    IF r >= add_range(f) THEN f
    ELSE add_rounds([f EXCEPT !.bloom_filter = set_bit(@, _hash(f, item, r))],
                    item, r + 1)

\* add_to_filter(item), lines 57-61, run to its end on the object value f
add_to_filter(f, item) == add_rounds(f, item, 0)

\* check_is_not_in_filter(item), lines 63-71: True at the first round whose
\* bit is 0, False when the range is exhausted
check_is_not_in_filter(f, item) ==
    \E r \in 0 .. check_range(f) - 1 : f.bloom_filter[_hash(f, item, r)] = 0

\* ------------------------------------------------------ POST /init

\* init_bloom_filter, line 93, entering BloomFilter.__init__, lines 21-27:
\* bitarray(size) raises ValueError for a negative size (caught at line
\* 100: HTTP 400); size / 0 raises ZeroDivisionError, which line 100 does
\* not catch.  The object is local to this thread until line 93 stores it.
InitConstruct(t, size, n, names) ==
    /\ pc[t] = "idle"
    /\ nextId <= MaxInst
    /\ op' = [op EXCEPT ![t] = "init"]
    /\ cfg' = [cfg EXCEPT ![t] = <<size, n, names>>]
    /\ UNCHANGED <<key, i, pre, used>>
    /\ IF size < 0
       THEN /\ init_raise(t, "ConfigurationError")
            /\ UNCHANGED <<heap, nextId, self, hist>>
       ELSE IF n = 0
       THEN /\ init_raise(t, "ZeroDivisionError")
            /\ UNCHANGED <<heap, nextId, self, hist>>
       ELSE /\ heap' = [id \in DOMAIN heap \cup {nextId} |->
                          IF id = nextId
                          THEN [size |-> size,
                                number_expected_elements |-> n,
                                bloom_filter |-> [b \in 0 .. size - 1 |-> 0],
                                number_hash_functions |-> number_hash_functions(size, n),
                                hash_functions |-> <<>>,
                                constructed |-> FALSE]
                          ELSE heap[id]]
            /\ hist' = [id \in DOMAIN hist \cup {nextId} |->
                          IF id = nextId
                          THEN [added |-> {}, started |-> {}, prev |-> {}]
                          ELSE hist[id]]
            /\ nextId' = nextId + 1
            /\ self' = [self EXCEPT ![t] = nextId]
            /\ pc' = [pc EXCEPT ![t] = "init29"]
            /\ UNCHANGED <<bloom_filter, outcome>>

\* BloomFilter.__init__, lines 29-48: the list of hash functions, or the
\* ValueError of line 39, which line 100 turns into HTTP 400; the
\* half-built object is dropped with the exception.
InitHashFunctions(t) ==
    /\ pc[t] = "init29"
    /\ LET r == hash_loop(cfg[t][3], <<>>)
           dropped == [self EXCEPT ![t] = None]
       IN  IF r.raised
           THEN /\ init_raise(t, "ConfigurationError")
                /\ self' = dropped
                /\ heap' = Collect(heap, bloom_filter, dropped)
                /\ hist' = Collect(hist, bloom_filter, dropped)
           ELSE /\ heap' = [heap EXCEPT ![self[t]].hash_functions = r.fns,
                                        ![self[t]].constructed = TRUE]
                /\ pc' = [pc EXCEPT ![t] = "init93"]
                /\ UNCHANGED <<bloom_filter, self, hist, outcome>>
    /\ UNCHANGED <<nextId, op, key, i, cfg, pre, used>>

\* init_bloom_filter, lines 93 and 98: the constructed object is stored in
\* the global, the object it replaces loses that reference.
InitPublish(t) ==
    /\ pc[t] = "init93"
    /\ bloom_filter' = self[t]
    /\ LET kept == [self EXCEPT ![t] = None]
           h == [hist EXCEPT ![self[t]].prev =
                     IF bloom_filter = None THEN {} ELSE hist[bloom_filter].added]
       IN  /\ self' = kept
           /\ heap' = Collect(heap, self[t], kept)
           /\ hist' = Collect(h, self[t], kept)
    /\ Finish(t, "ok")
    /\ UNCHANGED <<nextId, op, key, i, cfg, pre, used>>

\* ------------------------------------------------------- POST /add

\* add_item, lines 107-108: the test of the global against None
AddEnter(t, k) ==
    /\ pc[t] = "idle"
    /\ op' = [op EXCEPT ![t] = "add"]
    /\ key' = [key EXCEPT ![t] = k]
    /\ IF bloom_filter = None
       THEN raise_not_initialized(t)
       ELSE /\ pc' = [pc EXCEPT ![t] = "add110"]
            /\ UNCHANGED outcome
    /\ UNCHANGED <<bloom_filter, heap, nextId, self, i, cfg, hist, pre, used>>

\* add_item, line 110: the global is read again and add_to_filter is bound
\* to the object it holds now
AddBind(t) ==
    /\ pc[t] = "add110"
    /\ self' = [self EXCEPT ![t] = bloom_filter]
    /\ i' = [i EXCEPT ![t] = 0]
    /\ pc' = [pc EXCEPT ![t] = "add59"]
    /\ hist' = [hist EXCEPT ![bloom_filter].started = @ \cup {key[t]},
                            ![bloom_filter].prev = {}]
    /\ UNCHANGED <<bloom_filter, heap, nextId, op, key, cfg, outcome, pre, used>>

\* variant: every round goes through the global again instead of self
Receiver_rereads_global(t) == bloom_filter

\* the object whose fields a round of the method running on t reads and writes
Receiver(t) == self[t]

\* add_to_filter, lines 59-61, one iteration; add_item line 111 when the
\* range is exhausted.  With an empty hash_functions list, k % len(...) in
\* _hash raises ZeroDivisionError, which nothing catches.
AddRound(t) ==
    /\ pc[t] = "add59"
    /\ LET o == Receiver(t)
           f == heap[o]
       IN  IF i[t] >= add_range(f)
           THEN /\ Finish(t, "ok")
                /\ hist' = [hist EXCEPT ![self[t]].added = @ \cup {key[t]}]
                /\ UNCHANGED <<heap, i, used>>
           ELSE IF Len(f.hash_functions) = 0
           THEN /\ Finish(t, "ZeroDivisionError")
                /\ UNCHANGED <<heap, i, used, hist>>
           ELSE /\ heap' = [heap EXCEPT
                              ![o].bloom_filter = set_bit(@, _hash(f, key[t], i[t]))]
                /\ i' = [i EXCEPT ![t] = @ + 1]
                /\ used' = [used EXCEPT ![t] = @ \cup {o}]
                /\ UNCHANGED <<pc, outcome, hist>>
    /\ UNCHANGED <<bloom_filter, nextId, op, key, self, cfg, pre>>

\* ------------------------------------------------- GET /check/{key}

\* check_item, lines 118-119
CheckEnter(t, k) ==
    /\ pc[t] = "idle"
    /\ op' = [op EXCEPT ![t] = "check"]
    /\ key' = [key EXCEPT ![t] = k]
    /\ IF bloom_filter = None
       THEN raise_not_initialized(t)
       ELSE /\ pc' = [pc EXCEPT ![t] = "check121"]
            /\ UNCHANGED outcome
    /\ UNCHANGED <<bloom_filter, heap, nextId, self, i, cfg, hist, pre, used>>

\* check_item, line 121: the global is read again and
\* check_is_not_in_filter is bound to the object it holds now
CheckBind(t) ==
    /\ pc[t] = "check121"
    /\ self' = [self EXCEPT ![t] = bloom_filter]
    /\ i' = [i EXCEPT ![t] = 0]
    /\ pc' = [pc EXCEPT ![t] = "check67"]
    /\ pre' = [pre EXCEPT ![t] = key[t] \in hist[bloom_filter].added]
    /\ UNCHANGED <<bloom_filter, heap, nextId, op, key, cfg, outcome, hist, used>>

\* variant: a round of the check stores the bit it looks at
CheckRound_sets_bit(t) ==
    /\ pc[t] = "check67"
    /\ i[t] < check_range(heap[self[t]])
    /\ Len(heap[self[t]].hash_functions) > 0
    /\ heap' = [heap EXCEPT ![self[t]].bloom_filter =
                    set_bit(@, _hash(heap[self[t]], key[t], i[t]))]
    /\ i' = [i EXCEPT ![t] = @ + 1]
    /\ UNCHANGED <<bloom_filter, nextId, pc, op, key, self, cfg, outcome, hist, pre, used>>

\* check_is_not_in_filter, lines 67-71, one iteration, and the message
\* check_item builds from the result (lines 121-124): True is "definitely
\* absent", False is "possibly present"
CheckRound(t) ==
    /\ pc[t] = "check67"
    /\ LET o == Receiver(t)
           f == heap[o]
       IN  IF i[t] >= check_range(f)
           THEN /\ Finish(t, "PossiblyPresent")
                /\ UNCHANGED <<i, used>>
           ELSE IF Len(f.hash_functions) = 0
           THEN /\ Finish(t, "ZeroDivisionError")
                /\ UNCHANGED <<i, used>>
           ELSE IF f.bloom_filter[_hash(f, key[t], i[t])] = 0
           THEN /\ Finish(t, "DefinitelyAbsent")
                /\ used' = [used EXCEPT ![t] = @ \cup {o}]
                /\ UNCHANGED i
           ELSE /\ i' = [i EXCEPT ![t] = @ + 1]
                /\ used' = [used EXCEPT ![t] = @ \cup {o}]
                /\ UNCHANGED <<pc, outcome>>
    /\ UNCHANGED <<bloom_filter, heap, nextId, op, key, self, cfg, hist, pre>>

\* ------------------------------------------------------------ return

\* the response is sent and the worker thread is free again; the frame's
\* references die with it
Return(t) ==
    /\ pc[t] = "ret"
    /\ pc' = [pc EXCEPT ![t] = "idle"]
    /\ op' = [op EXCEPT ![t] = "none"]
    /\ key' = [key EXCEPT ![t] = NoKey]
    /\ i' = [i EXCEPT ![t] = 0]
    /\ outcome' = [outcome EXCEPT ![t] = "none"]
    /\ pre' = [pre EXCEPT ![t] = FALSE]
    /\ used' = [used EXCEPT ![t] = {}]
    /\ cfg' = [cfg EXCEPT ![t] = <<>>]
    /\ LET kept == [self EXCEPT ![t] = None]
       IN  /\ self' = kept
           /\ heap' = Collect(heap, bloom_filter, kept)
           /\ hist' = Collect(hist, bloom_filter, kept)
    /\ UNCHANGED <<bloom_filter, nextId>>

Next ==
    \/ \E t \in Threads, c \in Configs : InitConstruct(t, c[1], c[2], c[3])
    \/ \E t \in Threads : InitHashFunctions(t)
    \/ \E t \in Threads : InitPublish(t)
    \/ \E t \in Threads, k \in Keys : AddEnter(t, k)
    \/ \E t \in Threads : AddBind(t)
    \/ \E t \in Threads : AddRound(t)
    \/ \E t \in Threads, k \in Keys : CheckEnter(t, k)
    \/ \E t \in Threads : CheckBind(t)
    \/ \E t \in Threads : CheckRound(t)
    \/ \E t \in Threads : Return(t)

Spec == Init /\ [][Next]_vars

\* One request at a time, over every combination of the small parameter
\* ranges: the service as a sequential caller sees it.
NextSeq ==
    \/ \E size \in Sizes, n \in Expecteds, names \in NameLists :
          InitConstruct("t1", size, n, names)
    \/ InitHashFunctions("t1")
    \/ InitPublish("t1")
    \/ \E k \in Keys : AddEnter("t1", k)
    \/ AddBind("t1")
    \/ AddRound("t1")
    \/ \E k \in Keys : CheckEnter("t1", k)
    \/ CheckBind("t1")
    \/ CheckRound("t1")
    \/ Return("t1")

SpecSeq == Init /\ [][NextSeq]_vars

\* ======================================================== properties

\* a request has been answered and its answer is still in the frame
Returned(t, o) == pc[t] = "ret" /\ op[t] = o

\* C1: no false negatives.  A check of a key whose add had completed on the
\* same object before the check was bound to it answers "possibly present".
C1_NoFalseNegatives ==
    \A t \in Threads :
        (Returned(t, "check") /\ pre[t]) => outcome[t] = "PossiblyPresent"

\* C1 witness: such a check on an object with two rounds, after both keys
\* were added to it.
C1_Witness ==
    \E t \in Threads :
        /\ Returned(t, "check") /\ pre[t]
        /\ outcome[t] = "PossiblyPresent"
        /\ heap[self[t]].number_hash_functions >= 2
        /\ hist[self[t]].added = Keys

\* C2: an add or a check whose test of the global finds None ends with
\* UninitializedError, and the step changes neither the global nor any object.
C2_UninitializedFails ==
    [][\A t \in Threads :
          (/\ pc[t] = "idle" /\ pc'[t] # "idle"
           /\ op'[t] \in {"add", "check"}
           /\ bloom_filter = None)
          => (/\ pc'[t] = "ret"
              /\ outcome'[t] = "UninitializedError"
              /\ bloom_filter' = None
              /\ heap' = heap)]_vars

\* C2 witness: an add has failed that way while another thread has built an
\* object but not yet stored it.
C2_Witness ==
    \E t, u \in Threads :
        /\ Returned(t, "add") /\ outcome[t] = "UninitializedError"
        /\ bloom_filter = None
        /\ pc[u] = "init93"

\* C3: replacement discards state.  A check of a key that was added to the
\* replaced object, on the active object on which no add has begun, answers
\* "definitely absent".
C3_ReplacementDiscards ==
    \A t \in Threads :
        (/\ Returned(t, "check")
         /\ self[t] # None /\ self[t] = bloom_filter
         /\ hist[self[t]].started = {}
         /\ key[t] \in hist[self[t]].prev)
        => outcome[t] = "DefinitelyAbsent"

\* C4: a configure with size <= 0 or number_expected_elements <= 0 ends with
\* ConfigurationError, and no object with such values is ever the active one.
C4_RejectsNonPositive ==
    /\ \A t \in Threads :
          (Returned(t, "init") /\ (cfg[t][1] <= 0 \/ cfg[t][2] <= 0))
          => outcome[t] = "ConfigurationError"
    /\ bloom_filter # None =>
          (/\ heap[bloom_filter].size > 0
           /\ heap[bloom_filter].number_expected_elements > 0)

\* C5: a configure whose list holds an unsupported name, at any position,
\* ends with ConfigurationError.
C5_RejectsUnsupportedName ==
    \A t \in Threads :
        (/\ Returned(t, "init")
         /\ \E j \in 1 .. Len(cfg[t][3]) : cfg[t][3][j] \notin supported_hashes)
        => outcome[t] = "ConfigurationError"

\* C6: no step of a configure before its store at line 93, and so no step
\* of a configure that fails, changes the global or the active object.
C6_FailedConfigureKeepsState ==
    [][\A t \in Threads :
          (/\ pc[t] \in {"idle", "init29"} /\ pc'[t] # pc[t]
           /\ op'[t] = "init")
          => (/\ bloom_filter' = bloom_filter
              /\ bloom_filter # None => heap'[bloom_filter] = heap[bloom_filter])]_vars

\* C6 witness: a configure has failed while an object with a set bit is active.
C6_Witness ==
    \E t \in Threads :
        /\ Returned(t, "init")
        /\ outcome[t] \in {"ConfigurationError", "ZeroDivisionError"}
        /\ bloom_filter # None
        /\ \E b \in DOMAIN heap[bloom_filter].bloom_filter :
              heap[bloom_filter].bloom_filter[b] = 1

\* C7: the active object has at least one round.
C7_RoundCountPositive ==
    bloom_filter # None => heap[bloom_filter].number_hash_functions >= 1

\* C8: an add that found the global set ends with success.
C8_AddSucceeds ==
    \A t \in Threads :
        (Returned(t, "add") /\ outcome[t] # "UninitializedError") => outcome[t] = "ok"

\* an add or check of thread t is under way on the active object
InFlight(t) ==
    \/ pc[t] \in {"add110", "check121"}
    \/ pc[t] \in {"add59", "check67"} /\ self[t] = bloom_filter

\* C9: the global is not rebound from one object to another while an add or
\* a check is under way on the object it holds.
C9_SwapExcludesInFlight ==
    [][(bloom_filter' # bloom_filter /\ bloom_filter # None)
          => \A t \in Threads : ~InFlight(t)]_vars

\* C10: all rounds of one add or check read and write one object, and that
\* object's constructor had finished.
C10_OneInstancePerCall ==
    \A t \in Threads :
        /\ Cardinality(used[t]) <= 1
        /\ \A o \in used[t] : o \in DOMAIN heap /\ heap[o].constructed

\* C10 witness: an add is past its first round on an object that has been
\* replaced meanwhile.
C10_Witness ==
    \E t \in Threads :
        /\ pc[t] = "add59" /\ i[t] >= 1
        /\ used[t] = {self[t]}
        /\ bloom_filter # self[t]
        /\ heap[self[t]].number_hash_functions >= 2

\* the orders in which the keys of S can be added one after the other
Orders(S) ==
    {q \in [1 .. Cardinality(S) -> S] :
        \A a, b \in 1 .. Cardinality(S) : a # b => q[a] # q[b]}

\* the object value f as its constructor left it
Fresh(f) == [f EXCEPT !.bloom_filter = [b \in DOMAIN @ |-> 0]]

\* add_to_filter called for the keys of q, one call after the other
RECURSIVE run_adds(_, _)
run_adds(f, q) ==
    IF q = <<>> THEN f ELSE run_adds(add_to_filter(f, Head(q)), Tail(q))

\* no add is between its first and its last round on object o
NoAddUnderWay(o) == \A t \in Threads : ~(pc[t] = "add59" /\ self[t] = o)

\* C11: no lost update.  Whenever all adds begun on an object have ended,
\* however their rounds interleaved, its bit array is the one that the same
\* adds give when run one after the other on the fresh object, in any order.
C11_NoLostUpdate ==
    \A o \in DOMAIN heap :
        (heap[o].constructed /\ NoAddUnderWay(o)) =>
            \A q \in Orders(hist[o].added) :
                heap[o].bloom_filter = run_adds(Fresh(heap[o]), q).bloom_filter

\* C11 witness: two adds of different keys have both ended on the active
\* object, which has two rounds, and neither has returned yet.
C11_Witness ==
    \E t, u \in Threads :
        /\ Returned(t, "add") /\ Returned(u, "add")
        /\ outcome[t] = "ok" /\ outcome[u] = "ok"
        /\ key[t] # key[u]
        /\ self[t] = bloom_filter /\ self[u] = bloom_filter
        /\ heap[bloom_filter].number_hash_functions >= 2

\* C12: a check bound to an object after the add of its key ended there finds
\* the bit of every round set at every moment of its run, whatever other
\* adds are doing, and so never reaches the "definitely absent" answer.
C12_CheckAfterAddUnderConcurrency ==
    \A t \in Threads :
        (pc[t] \in {"check67", "ret"} /\ op[t] = "check" /\ pre[t]) =>
            /\ ~check_is_not_in_filter(heap[self[t]], key[t])
            /\ outcome[t] \in {"none", "PossiblyPresent"}

\* C12 witness: such a check is past its first round while an add of the
\* other key is past its first round on the same object.
C12_Witness ==
    \E t, u \in Threads :
        /\ pc[t] = "check67" /\ pre[t] /\ i[t] >= 1
        /\ pc[u] = "add59" /\ i[u] >= 1
        /\ self[u] = self[t] /\ key[u] # key[t]
        /\ heap[self[t]].number_hash_functions >= 2

\* thread t takes this step
Steps(t) == pc'[t] # pc[t] \/ i'[t] # i[t]

\* C13: idempotence.  No round of an add whose key has already been added
\* to the object changes the object's bit array, so the array after the
\* second add is the array after the first.
C13_AddIdempotent ==
    [][\A t \in Threads :
          (pc[t] = "add59" /\ key[t] \in hist[self[t]].added /\ Steps(t)) =>
              heap'[self[t]].bloom_filter = heap[self[t]].bloom_filter]_vars

\* C13 witness: a second add of a key is past its first round on an object
\* with two rounds to which the other key was added as well.
C13_Witness ==
    \E t \in Threads :
        /\ pc[t] = "add59" /\ i[t] >= 1
        /\ key[t] \in hist[self[t]].added
        /\ heap[self[t]].number_hash_functions >= 2
        /\ hist[self[t]].added = Keys

\* BloomFilter(size, number_expected_elements, hash_function_names), lines
\* 11-48, as the value a constructor call that raises nothing returns
BloomFilter(size, n, names) ==
    [size |-> size,
     number_expected_elements |-> n,
     bloom_filter |-> [b \in 0 .. size - 1 |-> 0],
     number_hash_functions |-> number_hash_functions(size, n),
     hash_functions |-> hash_loop(names, <<>>).fns,
     constructed |-> TRUE]

\* every round of add and check on f can compute its index
Usable(f) == f.number_hash_functions <= 0 \/ Len(f.hash_functions) > 0

\* the answer check_item gives for the result of check_is_not_in_filter
Answer(f, item) ==
    IF check_is_not_in_filter(f, item) THEN "DefinitelyAbsent" ELSE "PossiblyPresent"

\* C14: determinism.  A second filter, constructed from the configuration
\* of a live one and given the adds that ended on it, has the same bit array
\* and gives the same answer to the check of every key; and every answer the
\* live one has given is the answer of the second one.
C14_Deterministic ==
    \A o \in DOMAIN heap :
        (heap[o].constructed /\ NoAddUnderWay(o) /\ Usable(heap[o])) =>
            \A q \in Orders(hist[o].added) :
                LET twin == run_adds(BloomFilter(heap[o].size,
                                                 heap[o].number_expected_elements,
                                                 heap[o].hash_functions), q)
                IN  /\ twin.bloom_filter = heap[o].bloom_filter
                    /\ \A k \in Keys : Answer(twin, k) = Answer(heap[o], k)
                    /\ \A t \in Threads :
                          (Returned(t, "check") /\ self[t] = o)
                              => outcome[t] = Answer(twin, key[t])

\* C14 witness: a check has been answered "definitely absent" by an object
\* with two rounds and two algorithms to which the other key had been added.
C14_Witness ==
    \E t \in Threads :
        /\ Returned(t, "check") /\ outcome[t] = "DefinitelyAbsent"
        /\ heap[self[t]].number_hash_functions >= 2
        /\ Len(heap[self[t]].hash_functions) = 2
        /\ hist[self[t]].added = Keys \ {key[t]}

\* POST /init alone, one request at a time, over the sizes and expected
\* counts of the round-count formula
NextRounds ==
    \/ \E size \in RoundSizes, n \in RoundExpecteds :
          InitConstruct("t1", size, n, <<"sha256">>)
    \/ InitHashFunctions("t1")
    \/ InitPublish("t1")
    \/ Return("t1")

SpecRounds == Init /\ [][NextRounds]_vars

Abs(v) == IF v < 0 THEN -v ELSE v

\* C15: the round count of every object is the integer nearest to
\* (size / number_expected_elements) * ln 2, and it is 7 for size 1000 and
\* 100 expected elements.
C15_OptimalRoundFormula ==
    \A o \in DOMAIN heap :
        LET f == heap[o]
            k == f.number_hash_functions
        IN  /\ 2 * Abs(f.size * Ln2Num - k * f.number_expected_elements * Ln2Den)
                  <= Abs(f.number_expected_elements * Ln2Den)
            /\ (f.size = 1000 /\ f.number_expected_elements = 100) => k = 7

\* C15 witness: the object configured with size 1000, 100 expected elements
\* and sha256 is the active one, with 7 rounds.
C15_Witness ==
    /\ bloom_filter # None
    /\ heap[bloom_filter].size = 1000
    /\ heap[bloom_filter].number_expected_elements = 100
    /\ heap[bloom_filter].hash_functions = <<"sha256">>
    /\ heap[bloom_filter].number_hash_functions = 7

\* C16: the active object's list of hash functions is not empty.
C16_AlgorithmsNonEmpty ==
    bloom_filter # None => Len(heap[bloom_filter].hash_functions) >= 1

\* C17: no step clears a bit of an object, and whenever the global is
\* rebound the object it then holds has every bit 0.
C17_BitsMonotonic ==
    [][/\ \A o \in DOMAIN heap \cap DOMAIN heap' :
             \A b \in DOMAIN heap[o].bloom_filter :
                 heap[o].bloom_filter[b] = 1 => heap'[o].bloom_filter[b] = 1
       /\ bloom_filter' # bloom_filter =>
             \A b \in DOMAIN heap'[bloom_filter'].bloom_filter :
                 heap'[bloom_filter'].bloom_filter[b] = 0]_vars

\* C17 witness: a configure has just replaced an object that has a set bit
\* and is still in use by an add; the new object has bits, all 0.
C17_Witness ==
    \E t, u \in Threads :
        /\ Returned(t, "init") /\ outcome[t] = "ok"
        /\ pc[u] = "add59" /\ self[u] # bloom_filter
        /\ \E b \in DOMAIN heap[self[u]].bloom_filter : heap[self[u]].bloom_filter[b] = 1
        /\ heap[bloom_filter].size > 0
        /\ \A b \in DOMAIN heap[bloom_filter].bloom_filter :
              heap[bloom_filter].bloom_filter[b] = 0

\* C18: no step of a check, whatever it answers, changes the global or any
\* field of any object.
C18_CheckReadOnly ==
    [][\A t \in Threads :
          (op'[t] = "check" /\ Steps(t)) =>
              (heap' = heap /\ bloom_filter' = bloom_filter)]_vars

\* C18 witness: a check of a key never added has been answered "possibly
\* present" by an object with at least one round.
C18_Witness ==
    \E t \in Threads :
        /\ Returned(t, "check") /\ outcome[t] = "PossiblyPresent"
        /\ key[t] \notin hist[self[t]].started
        /\ heap[self[t]].number_hash_functions >= 1

\* C19: the bit array of every object has exactly `size` positions,
\* 0 .. size - 1, in every state, and the index of every key and every round
\* below the round count is one of them.
C19_IndexInRange ==
    \A o \in DOMAIN heap :
        LET f == heap[o]
        IN  /\ DOMAIN f.bloom_filter = 0 .. f.size - 1
            /\ Len(f.hash_functions) > 0 =>
                  \A k \in Keys :
                      \A r \in 0 .. f.number_hash_functions - 1 :
                          _hash(f, k, r) \in 0 .. f.size - 1

\* C19 witness: an add is between its rounds on an object of at least three
\* bits, one of them set.
C19_Witness ==
    \E t \in Threads :
        /\ pc[t] = "add59" /\ i[t] = 1
        /\ heap[self[t]].size >= 3
        /\ heap[self[t]].number_hash_functions >= 2
        /\ \E b \in DOMAIN heap[self[t]].bloom_filter : heap[self[t]].bloom_filter[b] = 1

\* C20: no spurious bits.  Every bit that is 1 in an object is the index of
\* some round of some key whose add was bound to that very object; an add
\* bound to a replaced object sets no bit of the object that replaced it.
C20_NoSpuriousBits ==
    \A o \in DOMAIN heap :
        LET f == heap[o]
        IN  \A b \in DOMAIN f.bloom_filter :
                f.bloom_filter[b] = 1 =>
                    /\ Len(f.hash_functions) > 0
                    /\ \E y \in hist[o].started :
                           \E r \in 0 .. f.number_hash_functions - 1 :
                               _hash(f, y, r) = b

\* C20 witness: an add is past its first round on a replaced object and has
\* set a bit there, while the active object, of the same size, has none set
\* and no add bound to it.
C20_Witness ==
    \E t \in Threads :
        /\ pc[t] = "add59" /\ i[t] >= 1
        /\ bloom_filter # None /\ self[t] # bloom_filter
        /\ heap[bloom_filter].size = heap[self[t]].size
        /\ heap[bloom_filter].number_hash_functions >= 1
        /\ hist[bloom_filter].started = {}
        /\ \E b \in DOMAIN heap[self[t]].bloom_filter : heap[self[t]].bloom_filter[b] = 1
        /\ \A b \in DOMAIN heap[bloom_filter].bloom_filter :
              heap[bloom_filter].bloom_filter[b] = 0

====
